---- MODULE Spec2Model ----
(***************************************************************************)
(* Model of pyprf_feature's model-bank store (model_creation) and of the   *)
(* fitted-time-course reconstruction (save_tc_to_nii).                     *)
(*                                                                         *)
(* Parameter values are integers counting micro-units (1 unit = 1e-6 of    *)
(* the parameter's unit), so that np.isclose is computed exactly.  Array   *)
(* indices are 1-based here where the python code is 0-based.              *)
(***************************************************************************)
EXTENDS Integers, Sequences, FiniteSets, TLC

VARIABLES
    prog,           \* the function that is run: "model_creation" or "save_tc_to_nii"
    cfg,            \* the configuration namespace (cls_set_config)
    disk,           \* file path -> file content
    pc,             \* position of the running program
    err,            \* the exception that ended the run, "none" if none
    runs,           \* number of program runs started so far
    lgcCrteMdl,     \* cfg.lgcCrteMdl of the current model_creation call
    mcPrfTc,        \* model_creation: local aryPrfTc
    mcRet,          \* model_creation: returned tensor (NoTensor before return)
    savedTc,        \* history: the tensor the last create run saved
    aryIntGssPrm,   \* save_tc_to_nii: winning (x, y, sigma) per voxel
    aryBetas,       \* save_tc_to_nii: weights per voxel
    aryMdlParams,   \* save_tc_to_nii: parameter grid
    aryPrfTc,       \* save_tc_to_nii: model bank after prep_models
    aryFitTc,       \* save_tc_to_nii: fitted time courses
    vecVxlTst,      \* save_tc_to_nii: per-voxel visit counter
    aryUnqRows,     \* save_tc_to_nii: distinct winning triples
    aryUnqInd,      \* save_tc_to_nii: voxel -> index into aryUnqRows
    indRow          \* save_tc_to_nii: loop position

vars == <<prog, cfg, disk, pc, err, runs, lgcCrteMdl, mcPrfTc, mcRet, savedTc,
          aryIntGssPrm, aryBetas, aryMdlParams, aryPrfTc, aryFitTc,
          vecVxlTst, aryUnqRows, aryUnqInd, indRow>>

mcVars == <<lgcCrteMdl, mcPrfTc, mcRet, savedTc>>
tcVars == <<aryIntGssPrm, aryBetas, aryMdlParams, aryPrfTc, aryFitTc,
            vecVxlTst, aryUnqRows, aryUnqInd, indRow>>

----------------------------------------------------------------------------
(* Bounds of the model *)

NumVox == 2          \* voxels of a reconstruction run
MaxNum == 2          \* largest varNum1 / varNum2
NumKernels == 2      \* kernel (regressor) dimension of the model bank
MaxVol == 2          \* largest number of volumes of a bank found on disk
MaxRuns == 2         \* program runs in a row
NumVoxCov == 4       \* voxels of the coverage-check specification
MaxVisit == 2        \* largest visit counter of the coverage-check specification

(* Program constants, in micro-units *)
Atol == 100          \* atol=1e-04
RtolInv == 100000    \* np.isclose default rtol=1e-05, as its inverse

----------------------------------------------------------------------------
(* Small helpers *)

Abs(x) == IF x < 0 THEN -x ELSE x

Range(s) == {s[i] : i \in DOMAIN s}

RECURSIVE SumSeq(_)
SumSeq(s) == IF s = <<>> THEN 0 ELSE Head(s) + SumSeq(Tail(s))

NoTensor == [kind |-> "none"]
Absent == [kind |-> "absent"]

----------------------------------------------------------------------------
(* File names.  A path is a sequence of name parts. *)

NpSavePath(p) == IF Len(p) > 0 /\ p[Len(p)] = ".npy" THEN p ELSE p \o <<".npy">>

TcSavePath(c) == NpSavePath(c.strPathMdl)
PrmSavePath(c) == NpSavePath(c.strPathMdl \o <<"_params">>)
TcLoadPath(c) == c.strPathMdl \o <<".npy">>
EmpTcPath(c) == c.strPathOut \o <<"_EmpTc", ".nii.gz">>
FitTcPath(c) == c.strPathOut \o <<"_FitTc", ".nii.gz">>

PathsMdl == {<<"mdl">>, <<"mdl", ".npy">>}
PathOut == <<"out">>

Files == UNION {{TcSavePath(c), PrmSavePath(c), TcLoadPath(c), EmpTcPath(c), FitTcPath(c)} :
                c \in {[strPathMdl |-> p, strPathOut |-> PathOut] : p \in PathsMdl}}

----------------------------------------------------------------------------
(* Parameter grid *)

Linspace(lo, hi, n) ==
    IF n = 1 THEN <<lo>>
    ELSE [i \in 1..n |-> lo + ((i - 1) * (hi - lo)) \div (n - 1)]

\* x ranges: ordinary spacing, spacing below the tolerance, large magnitudes
XRanges == {<<0, 2000000>>, <<0, 60>>, <<10000000, 12000000>>}
YRange == <<0, 1000000>>
SdRange == <<2000000, 2000000>>
NumsPrfSizes == {1}

crt_mdl_prms(c) ==
    LET vecX == Linspace(c.varExtXmin, c.varExtXmax, c.varNum1)
        vecY == Linspace(c.varExtYmin, c.varExtYmax, c.varNum2)
        vecSd == Linspace(c.varPrfStdMin, c.varPrfStdMax, c.varNumPrfSizes)
        n2 == c.varNum2
        n3 == c.varNumPrfSizes
    IN [i \in 1..(c.varNum1 * n2 * n3) |->
            <<vecX[((i - 1) \div (n2 * n3)) + 1],
              vecY[(((i - 1) \div n3) % n2) + 1],
              vecSd[((i - 1) % n3) + 1]>>]

----------------------------------------------------------------------------
(* Model bank tensors: shape and content *)

Tensor(rows, vols, seed) == [kind |-> "tc", rows |-> rows, vols |-> vols, seed |-> seed]

\* value of the bank at [row, kernel, volume]
TcVal(b, r, k, t) == b.seed + 7 * r + 3 * k + t

Seeds == {0, 1}

\* content of a bank left on disk by an earlier, unrelated run
StaleSeeds == {5}

\* crt_mdl_rsp and crt_prf_ftr_tc: one row per grid row, varNumVol volumes
crt_prf_ftr_tc(c, seed) == Tensor(Len(crt_mdl_prms(c)), c.varNumVol, seed)

\* prep_models: smoothing and z-scoring change the values and keep the shape
prep_models(b) == [b EXCEPT !.seed = b.seed + 10]

----------------------------------------------------------------------------
(* model_creation *)

ShapeOKLeadingOnly(shp, c) ==
    shp.rows = c.varNum1 * c.varNum2 * c.varNumPrfSizes

\* the logical test for correct dimensions
ShapeOK(shp, c) ==
    /\ shp.rows = c.varNum1 * c.varNum2 * c.varNumPrfSizes
    /\ shp.vols = c.varNumVol

Raise(e) == pc' = "error" /\ err' = e

McStart(l) ==
    /\ pc \in {"mc_idle", "mc_done"}
    /\ runs < MaxRuns
    /\ runs' = runs + 1
    /\ lgcCrteMdl' = l
    /\ mcPrfTc' = NoTensor
    /\ mcRet' = NoTensor
    /\ pc' = IF l THEN "mc_compute" ELSE "mc_load"
    /\ UNCHANGED <<prog, cfg, disk, err, savedTc, tcVars>>

McCompute ==
    /\ pc = "mc_compute"
    /\ \E s \in Seeds : mcPrfTc' = crt_prf_ftr_tc(cfg, s)
    /\ pc' = "mc_save_tc"
    /\ UNCHANGED <<prog, cfg, disk, err, runs, lgcCrteMdl, mcRet, savedTc, tcVars>>

McSaveTc ==
    /\ pc = "mc_save_tc"
    /\ \/ /\ disk' = [disk EXCEPT ![TcSavePath(cfg)] = mcPrfTc]
          /\ pc' = "mc_save_prm"
          /\ UNCHANGED err
       \/ /\ Raise("IOError")
          /\ UNCHANGED disk
    /\ UNCHANGED <<prog, cfg, runs, mcVars, tcVars>>

McSavePrm ==
    /\ pc = "mc_save_prm"
    /\ \/ /\ disk' = [disk EXCEPT ![PrmSavePath(cfg)] =
                          [kind |-> "prm", grid |-> crt_mdl_prms(cfg)]]
          /\ mcRet' = mcPrfTc
          /\ savedTc' = mcPrfTc
          /\ pc' = "mc_done"
          /\ UNCHANGED err
       \/ /\ Raise("IOError")
          /\ UNCHANGED <<disk, mcRet, savedTc>>
    /\ UNCHANGED <<prog, cfg, runs, lgcCrteMdl, mcPrfTc, tcVars>>

McLoad ==
    /\ pc = "mc_load"
    /\ LET file == disk[TcLoadPath(cfg)] IN
         IF file = Absent
         THEN Raise("IOError") /\ UNCHANGED <<mcPrfTc, mcRet>>
         ELSE /\ mcPrfTc' = file
              /\ IF ShapeOK(file, cfg)
                 THEN mcRet' = file /\ pc' = "mc_done" /\ UNCHANGED err
                 ELSE Raise("AssertionError") /\ UNCHANGED mcRet
    /\ UNCHANGED <<prog, cfg, disk, runs, lgcCrteMdl, savedTc, tcVars>>

----------------------------------------------------------------------------
(* save_tc_to_nii *)

LexLess(a, b) ==
    \/ a[1] < b[1]
    \/ a[1] = b[1] /\ a[2] < b[2]
    \/ a[1] = b[1] /\ a[2] = b[2] /\ a[3] < b[3]

RECURSIVE SortRows(_)
SortRows(S) ==
    IF S = {} THEN <<>>
    ELSE LET m == CHOOSE m \in S : \A o \in S \ {m} : LexLess(m, o)
         IN <<m>> \o SortRows(S \ {m})

\* fnd_unq_rws(ary, return_inverse=True): the sorted distinct rows, and for
\* every row of ary the index of its distinct row
fnd_unq_rws(ary) ==
    LET unq == SortRows(Range(ary))
    IN [rows |-> unq,
        inverse |-> [v \in DOMAIN ary |-> CHOOSE i \in DOMAIN unq : unq[i] = ary[v]]]

lgcVxlFrom(unqInd, i) == {v \in DOMAIN unqInd : unqInd[v] >= i}

\* lgcVxl = [aryUnqInd == indRow][0], as the set of voxels where it is True
lgcVxl(unqInd, i) == {v \in DOMAIN unqInd : unqInd[v] = i}

\* np.isclose(a, b, atol=1e-04): |a - b| <= atol + rtol * |b|
IsClose(a, b) == Abs(a - b) <= Atol + (Abs(b) \div RtolInv)

\* np.where(np.isclose(aryMdlParams, vecPrm, atol=1e-04).all(axis=1))[0]
MatchRows(params, vecPrm) ==
    {r \in DOMAIN params : \A j \in 1..3 : IsClose(params[r][j], vecPrm[j])}

MinOf(S) == CHOOSE m \in S : \A o \in S : m <= o

lgcMdlArgmax(params, vecPrm) ==
    IF MatchRows(params, vecPrm) = {} THEN 1 ELSE MinOf(MatchRows(params, vecPrm))

\* ...[0][0]: the first matching row; 0 stands for the IndexError that
\* indexing the empty result raises
lgcMdl(params, vecPrm) ==
    IF MatchRows(params, vecPrm) = {} THEN 0 ELSE MinOf(MatchRows(params, vecPrm))

\* np.dot(aryWeights, aryMdlTc) for one voxel: weights [kernel] times
\* model time courses [kernel, volume]
RECURSIVE DotUpTo(_, _, _, _, _)
DotUpTo(w, b, r, t, k) ==
    IF k = 0 THEN 0 ELSE w[k] * TcVal(b, r, k, t) + DotUpTo(w, b, r, t, k - 1)

Dot(w, b, r) == [t \in 1..b.vols |-> DotUpTo(w, b, r, t, Len(w))]

\* the check that every voxel was visited exactly once
CoverageOK(vec) == Len(vec) = SumSeq(vec)

\* lines 18-88: load the results, the grid and the model bank, initialise.
\* The result files of the fit (lines 31-50) are taken to exist; prm and
\* betas are their masked contents.
TcStart(prm, betas) ==
    /\ pc = "tc_idle"
    /\ runs' = runs + 1
    /\ LET file == disk[TcLoadPath(cfg)] IN
         IF file = Absent
         THEN /\ Raise("IOError")
              /\ UNCHANGED tcVars
         ELSE LET unq == fnd_unq_rws(prm) IN
              /\ aryIntGssPrm' = prm
              /\ aryBetas' = betas
              /\ aryMdlParams' = crt_mdl_prms(cfg)
              /\ aryPrfTc' = prep_models(file)
              /\ aryFitTc' = [v \in DOMAIN prm |-> [t \in 1..file.vols |-> 0]]
              /\ vecVxlTst' = [v \in DOMAIN prm |-> 0]
              /\ aryUnqRows' = unq.rows
              /\ aryUnqInd' = unq.inverse
              /\ indRow' = 1
              /\ pc' = "tc_loop"
              /\ UNCHANGED err
    /\ UNCHANGED <<prog, cfg, disk, mcVars>>

\* lines 91-110: one pass of the loop over the distinct winning triples
LoopStep ==
    /\ pc = "tc_loop"
    /\ indRow <= Len(aryUnqRows)
    /\ LET vecPrm == aryUnqRows[indRow]
           vxl == lgcVxl(aryUnqInd, indRow)
           mdl == lgcMdl(aryMdlParams, vecPrm)
           visited == [v \in DOMAIN vecVxlTst |->
                          IF v \in vxl THEN vecVxlTst[v] + 1 ELSE vecVxlTst[v]]
       IN IF mdl = 0
          THEN /\ Raise("IndexError")
               /\ UNCHANGED <<vecVxlTst, aryFitTc, indRow>>
          ELSE IF mdl > aryPrfTc.rows
          THEN /\ Raise("IndexError")
               /\ vecVxlTst' = visited
               /\ UNCHANGED <<aryFitTc, indRow>>
          ELSE /\ vecVxlTst' = visited
               /\ aryFitTc' = [v \in DOMAIN aryFitTc |->
                                  IF v \in vxl THEN Dot(aryBetas[v], aryPrfTc, mdl)
                                  ELSE aryFitTc[v]]
               /\ indRow' = indRow + 1
               /\ UNCHANGED <<pc, err>>
    /\ UNCHANGED <<prog, cfg, disk, runs, mcVars, aryIntGssPrm, aryBetas, aryMdlParams,
                   aryPrfTc, aryUnqRows, aryUnqInd>>

\* lines 112-114: the assert after the loop
AssertCoverage ==
    /\ pc = "tc_loop"
    /\ indRow > Len(aryUnqRows)
    /\ IF CoverageOK(vecVxlTst)
       THEN pc' = "tc_export_emp" /\ UNCHANGED err
       ELSE Raise("AssertionError")
    /\ UNCHANGED <<prog, cfg, disk, runs, mcVars, tcVars>>

ExportEmpEarly ==
    /\ pc = "tc_loop"
    /\ disk[EmpTcPath(cfg)] = Absent
    /\ disk' = [disk EXCEPT ![EmpTcPath(cfg)] = [kind |-> "nii", data |-> "aryFunc"]]
    /\ UNCHANGED <<prog, cfg, pc, err, runs, mcVars, tcVars>>

\* lines 116-127: export of the observed time courses
ExportEmp ==
    /\ pc = "tc_export_emp"
    /\ \/ /\ disk' = [disk EXCEPT ![EmpTcPath(cfg)] = [kind |-> "nii", data |-> "aryFunc"]]
          /\ pc' = "tc_export_fit"
          /\ UNCHANGED err
       \/ /\ Raise("IOError")
          /\ UNCHANGED disk
    /\ UNCHANGED <<prog, cfg, runs, mcVars, tcVars>>

\* lines 129-140: export of the fitted time courses
ExportFit ==
    /\ pc = "tc_export_fit"
    /\ \/ /\ disk' = [disk EXCEPT ![FitTcPath(cfg)] = [kind |-> "nii", data |-> aryFitTc]]
          /\ pc' = "tc_done"
          /\ UNCHANGED err
       \/ /\ Raise("IOError")
          /\ UNCHANGED disk
    /\ UNCHANGED <<prog, cfg, runs, mcVars, tcVars>>

----------------------------------------------------------------------------
(* Inputs *)

Cfgs(paths, xranges, vols) ==
    {[strPathMdl |-> p, strPathOut |-> PathOut,
      varNum1 |-> n1, varExtXmin |-> xr[1], varExtXmax |-> xr[2],
      varNum2 |-> n2, varExtYmin |-> YRange[1], varExtYmax |-> YRange[2],
      varNumPrfSizes |-> n3, varPrfStdMin |-> SdRange[1], varPrfStdMax |-> SdRange[2],
      varNumVol |-> nv] :
        p \in paths, xr \in xranges, n1 \in 1..MaxNum, n2 \in {1, 2},
        n3 \in NumsPrfSizes, nv \in vols}

EmptyDisk == [f \in Files |-> Absent]

\* the disk before the run: possibly a model bank from an earlier run under
\* the name the load reads
Disks(c, banks) ==
    {EmptyDisk} \cup {[EmptyDisk EXCEPT ![TcLoadPath(c)] = b] : b \in banks}

BanksMc(c) ==
    {Tensor(r, v, s) : r \in {c.varNum1 * c.varNum2 * c.varNumPrfSizes, 1},
                       v \in 1..MaxVol, s \in StaleSeeds}

BanksTc(c) ==
    {Tensor(r, c.varNumVol, s) :
        r \in {n \in {Len(crt_mdl_prms(c)) + d : d \in {-1, 0, 1}} : n >= 1},
        s \in StaleSeeds}

\* perturbations of a winning x position: none, below 1e-5, above 1e-4
Noises == {0, 9, 150}

\* winning triples: every grid row, and the first and the last grid row with
\* the x component perturbed
Winners(c) ==
    LET grid == crt_mdl_prms(c) IN
    Range(grid) \cup
    {<<grid[r][1] + d, grid[r][2], grid[r][3]>> : r \in {1, Len(grid)}, d \in Noises}

WeightBases == {1, 2}

Betas(base) == [v \in 1..NumVox |-> [k \in 1..NumKernels |-> base + v + k]]

\* save_tc_to_nii called on the results of a fit
TcRun ==
    /\ pc = "tc_idle"
    /\ \E prm \in [1..NumVox -> Winners(cfg)], base \in WeightBases :
           TcStart(prm, Betas(base))

NoRun ==
    /\ aryIntGssPrm = <<>>
    /\ aryBetas = <<>>
    /\ aryMdlParams = <<>>
    /\ aryPrfTc = NoTensor
    /\ aryFitTc = <<>>
    /\ vecVxlTst = <<>>
    /\ aryUnqRows = <<>>
    /\ aryUnqInd = <<>>
    /\ indRow = 1

NoMc ==
    /\ lgcCrteMdl = FALSE
    /\ mcPrfTc = NoTensor
    /\ mcRet = NoTensor
    /\ savedTc = NoTensor

InitMc ==
    /\ prog = "model_creation"
    /\ cfg \in Cfgs(PathsMdl, {<<0, 2000000>>}, 1..MaxVol)
    /\ disk \in Disks(cfg, BanksMc(cfg))
    /\ pc = "mc_idle"
    /\ err = "none"
    /\ runs = 0
    /\ NoMc
    /\ NoRun

InitTc ==
    /\ prog = "save_tc_to_nii"
    /\ cfg \in Cfgs({<<"mdl">>}, XRanges, {MaxVol})
    /\ disk \in Disks(cfg, BanksTc(cfg))
    /\ pc = "tc_idle"
    /\ err = "none"
    /\ runs = 0
    /\ NoMc
    /\ NoRun

Init == InitMc \/ InitTc

Next ==
    \/ \E l \in BOOLEAN : McStart(l)
    \/ McCompute
    \/ McSaveTc
    \/ McSavePrm
    \/ McLoad
    \/ TcRun
    \/ LoopStep
    \/ AssertCoverage
    \/ ExportEmp
    \/ ExportFit

Spec == Init /\ [][Next]_vars

(* The coverage check on its own: the assert of line 114 applied to every  *)
(* vector of visit counters.                                               *)
InitCov ==
    /\ prog = "save_tc_to_nii"
    /\ cfg \in Cfgs({<<"mdl">>}, {<<0, 2000000>>}, {MaxVol})
    /\ cfg.varNum1 = 1 /\ cfg.varNum2 = 1
    /\ disk = EmptyDisk
    /\ pc = "tc_loop"
    /\ err = "none"
    /\ runs = 1
    /\ NoMc
    /\ aryIntGssPrm = [v \in 1..NumVoxCov |-> crt_mdl_prms(cfg)[1]]
    /\ aryBetas = [v \in 1..NumVoxCov |-> [k \in 1..NumKernels |-> 1]]
    /\ aryMdlParams = crt_mdl_prms(cfg)
    /\ aryPrfTc = prep_models(crt_prf_ftr_tc(cfg, 0))
    /\ aryFitTc = [v \in 1..NumVoxCov |-> [t \in 1..cfg.varNumVol |-> 0]]
    /\ vecVxlTst \in [1..NumVoxCov -> 0..MaxVisit]
    /\ aryUnqRows = <<>>
    /\ aryUnqInd = <<>>
    /\ indRow = 1

NextCov ==
    \/ AssertCoverage
    \/ ExportEmp
    \/ ExportFit

SpecCov == InitCov /\ [][NextCov]_vars

----------------------------------------------------------------------------
(* Properties *)

IsMc == prog = "model_creation"
IsTc == prog = "save_tc_to_nii"

\* save_tc_to_nii has loaded its inputs and entered the loop
TcStarted == IsTc /\ aryIntGssPrm # <<>>

\* the loop over the distinct triples has finished
LoopDone == TcStarted /\ indRow > Len(aryUnqRows)

\* all three components of the two rows differ by at most tol
AbsWithin(a, b, tol) == \A j \in 1..3 : Abs(a[j] - b[j]) <= tol

\* the lookup of distinct triple i raised: no grid row matched it
NoMatchRaisedAt(i) ==
    /\ pc = "error" /\ err = "IndexError"
    /\ indRow = i
    /\ MatchRows(aryMdlParams, aryUnqRows[i]) = {}

\* C1: when every winning triple is an exact grid row (and the bank has one
\* row per grid row), after the loop every
\* visit counter is 1 and every fitted row is the voxel's weights times the
\* bank row whose grid row equals the voxel's winning triple.
C1_Reconstruction ==
    (/\ LoopDone
     /\ aryPrfTc.rows = Len(aryMdlParams)
     /\ \A v \in DOMAIN aryIntGssPrm : aryIntGssPrm[v] \in Range(aryMdlParams))
    => \A v \in DOMAIN aryIntGssPrm :
          /\ vecVxlTst[v] = 1
          /\ \E r \in DOMAIN aryMdlParams :
                /\ aryMdlParams[r] = aryIntGssPrm[v]
                /\ r <= aryPrfTc.rows
                /\ aryFitTc[v] = Dot(aryBetas[v], aryPrfTc, r)

C5_RoundTrip ==
    (/\ IsMc /\ runs > 0 /\ ~lgcCrteMdl
     /\ savedTc # NoTensor
     /\ pc \in {"mc_done", "error"})
    => (pc = "mc_done" /\ mcRet = savedTc)

\* C6 as stated: a finished or failed run never leaves the tensor it saved
\* without the parameter grid, nor the _EmpTc export without the _FitTc export.
C6_NoPartialOutput ==
    pc \in {"error", "mc_done", "tc_done"}
    => /\ (/\ IsMc /\ lgcCrteMdl /\ mcPrfTc # NoTensor
           /\ disk[TcSavePath(cfg)] = mcPrfTc)
          => disk[PrmSavePath(cfg)] # Absent
       /\ disk[EmpTcPath(cfg)] # Absent => disk[FitTcPath(cfg)] # Absent

\* C6 as amended: every write happens only after the computation and the
\* checks of its run (model creation: the tensor is computed; reconstruction:
\* the loop is finished and the coverage assert has passed, _FitTc after
\* _EmpTc); a step that fails writes nothing, and a reconstruction that failed
\* in a lookup or in the coverage assert has exported nothing.
C6_WritesAfterChecks ==
    /\ [][disk' # disk =>
            /\ IsMc => (lgcCrteMdl /\ mcPrfTc # NoTensor
                          /\ mcPrfTc = crt_prf_ftr_tc(cfg, mcPrfTc.seed))
            /\ IsTc => (/\ LoopDone
                        /\ Len(vecVxlTst) = SumSeq(vecVxlTst)
                        /\ disk'[FitTcPath(cfg)] # disk[FitTcPath(cfg)]
                              => disk[EmpTcPath(cfg)] # Absent)]_vars
    /\ [][pc' = "error" => disk' = disk]_vars
    /\ [](IsTc /\ pc = "error" /\ err \in {"IndexError", "AssertionError"}
            => disk[EmpTcPath(cfg)] = Absent /\ disk[FitTcPath(cfg)] = Absent)

C6_Witness ==
    /\ IsTc /\ pc = "tc_done"
    /\ disk[EmpTcPath(cfg)] # Absent
    /\ disk[FitTcPath(cfg)] = [kind |-> "nii", data |-> aryFitTc]

\* C7: a distinct triple within 1e-5 of a grid row does not raise the no-match
\* error, and a distinct triple that was matched and processed has a grid row
\* within the absolute tolerance 1e-4 on all three components.
C7_AbsoluteTolerance ==
    TcStarted =>
      \A i \in DOMAIN aryUnqRows :
         /\ (\E r \in DOMAIN aryMdlParams : AbsWithin(aryMdlParams[r], aryUnqRows[i], 9))
               => ~NoMatchRaisedAt(i)
         /\ i < indRow
               => \E r \in DOMAIN aryMdlParams :
                     AbsWithin(aryMdlParams[r], aryUnqRows[i], Atol)

\* C8: every distinct triple that was matched and processed had exactly one
\* matching grid row.
C8_UniqueMatch ==
    TcStarted =>
      \A i \in DOMAIN aryUnqRows :
         i < indRow => Cardinality(MatchRows(aryMdlParams, aryUnqRows[i])) = 1

\* C9: the model bank that the loop indexes has as many rows as the parameter
\* grid it is matched against.
C9_BankPaired ==
    TcStarted => aryPrfTc.rows = Len(aryMdlParams)

\* C10: the voxel sets of the distinct triples partition the voxels, none is
\* empty, no voxel is visited twice, and a fitted row of a processed group
\* depends on the voxel's own winning triple and weights only.
C10_Partition ==
    TcStarted =>
      /\ \A v \in DOMAIN aryIntGssPrm :
            Cardinality({i \in DOMAIN aryUnqRows : v \in lgcVxl(aryUnqInd, i)}) = 1
      /\ \A i \in DOMAIN aryUnqRows : lgcVxl(aryUnqInd, i) # {}
      /\ \A v \in DOMAIN vecVxlTst : vecVxlTst[v] <= 1
      /\ \A v \in DOMAIN aryIntGssPrm :
            aryUnqInd[v] < indRow
               => /\ vecVxlTst[v] = 1
                  /\ aryFitTc[v] = Dot(aryBetas[v], aryPrfTc,
                                       lgcMdl(aryMdlParams, aryIntGssPrm[v]))

C10_Witness ==
    /\ LoopDone
    /\ pc = "tc_done"
    /\ Len(aryUnqRows) < Len(aryIntGssPrm)

====
